---- MODULE Spec2Model ----
(***************************************************************************)
(* Model of src/cubism2/Cubism2InternalModel.ts: the per-frame update      *)
(* cycle (update), the draw call (draw) with the culling accessor that     *)
(* init installs, and updateWebGLContext.                                  *)
(*                                                                         *)
(* Every handler is one atomic action (JavaScript runs a handler to        *)
(* completion).  A handler's body is an operator that threads a record     *)
(* through the statements of the source in their order and appends every   *)
(* collaborator call and every emitted event to a log; the action stores   *)
(* the result, and the log with the call's inputs in a record of the last  *)
(* call.                                                                   *)
(*                                                                         *)
(* Numbers: parameter values and focus coordinates are fixed-point         *)
(* thousandths.  The entries of a drawing matrix are JavaScript doubles    *)
(* (modelled by integers, all of which a double holds exactly); the        *)
(* entries of tempMatrixArray are float32, so a store rounds (Fround).     *)
(*                                                                         *)
(* The update cycle and updateWebGLContext touch only the state of the     *)
(* instance they are called on, so they are modelled for one instance.     *)
(* draw writes the module-level tempMatrixArray, which all instances       *)
(* share, so the draw state is modelled for NumInstances instances.        *)
(* The three groups of operations work on disjoint state and are checked   *)
(* under SpecUpdate, SpecDraw and SpecGL; Spec is their composition.       *)
(***************************************************************************)
EXTENDS Integers, Sequences, FiniteSets, TLC

\* ------------------------------------------------------------------ bounds

\* Number of Cubism2InternalModel instances that draw.
NumInstances == 2

\* Largest WebGL context id handed to updateWebGLContext.
MaxContextID == 2

\* A run of consecutive quiet updates is counted up to this length.
MaxQuietRun == 3

Instances == 1..NumInstances
ContextIDs == 0..MaxContextID

\* ---------------------------------------------------------------- state

\* The update cycle (one instance).
VARIABLES
    eyeBlink,       \* this.eyeBlink exists
    physics,        \* this.physics exists
    pose,           \* this.pose exists
    params,         \* the core model's parameter values
    savedParams,    \* the core model's saved parameter values (saveParam)
    focus,          \* focusController.x, focusController.y
    lastUpdate,     \* the last call of update: inputs, log, snapshots
    quietRun        \* the current run of updates whose motion changed nothing

\* draw (every instance, and the array they share).
VARIABLES
    disableCulling,   \* this.disableCulling, per instance
    culling,          \* init's local variable culling, behind the accessor
    cullingWritten,   \* the value most recently written to drawParamWebGL.culling
    drawingMatrix,    \* this.drawingMatrix, per instance
    tempMatrixArray,  \* the module's Float32Array(16), shared by all instances
    lastDraw          \* the last call of draw: inputs, log, what the core saw

\* updateWebGLContext (one instance).
VARIABLES
    drawParamWebGL,   \* coreModel.drawParamWebGL: firstDraw, glno, gl, the rest
    clipManager,      \* coreModel.getModelContext().clipManager
    lastGL            \* the last call of updateWebGLContext

updateVars == <<eyeBlink, physics, pose, params, savedParams, focus, lastUpdate, quietRun>>
drawVars == <<disableCulling, culling, cullingWritten, drawingMatrix, tempMatrixArray, lastDraw>>
glVars == <<drawParamWebGL, clipManager, lastGL>>

\* ------------------------------------------------------------- log entries

Call(name, args) == [kind |-> "call", name |-> name, args |-> args]
Event(name) == [kind |-> "emit", name |-> name, args |-> <<>>]

\* =========================================================================
\* The update cycle
\* =========================================================================

eyeballXParamIndex == "PARAM_EYE_BALL_X"
eyeballYParamIndex == "PARAM_EYE_BALL_Y"
angleXParamIndex == "PARAM_ANGLE_X"
angleYParamIndex == "PARAM_ANGLE_Y"
angleZParamIndex == "PARAM_ANGLE_Z"
bodyAngleXParamIndex == "PARAM_BODY_ANGLE_X"
breathParamIndex == "PARAM_BREATH"
eyeOpenParamIndex == "PARAM_EYE_L_OPEN"
hairParamIndex == "PARAM_HAIR_FRONT"

ParamIndices ==
    { eyeballXParamIndex, eyeballYParamIndex, angleXParamIndex, angleYParamIndex,
      angleZParamIndex, bodyAngleXParamIndex, breathParamIndex,
      eyeOpenParamIndex, hairParamIndex }

\* Inputs of a frame.
DtValues == {16, 33}
NowValues == {1000, 2500}
FocusValues == { <<0, 0>>, <<1000, -500>> }
MotionInputs == {"none", "nod"}

\* The parameter values after the constructor (settings.initParams applied).
InitParams ==
    [p \in ParamIndices |-> IF p = eyeOpenParamIndex THEN 1000 ELSE 0]

\* The parameters a playing motion writes in a frame.
MotionFrame(motion) ==
    CASE motion = "nod"  -> [p \in {angleXParamIndex, angleYParamIndex} |->
                                IF p = angleXParamIndex THEN 5000 ELSE -2000]
      [] OTHER           -> [p \in {} |-> 0]

\* --------------------------------------------------------- the core model

setParamFloat(ps, index, value) == [ps EXCEPT ![index] = value]

addToParamFloat(ps, index, value) == [ps EXCEPT ![index] = @ + value]

saveParam(s) ==
    [s EXCEPT !.saved = s.params,
              !.log = Append(@, Call("coreModel.saveParam", <<>>))]

loadParam(s) ==
    [s EXCEPT !.params = s.saved,
              !.log = Append(@, Call("coreModel.loadParam", <<>>))]

coreModelUpdate(s) ==
    [s EXCEPT !.atModelUpdate = s.params,
              !.log = Append(@, Call("coreModel.update", <<>>))]

\* ------------------------------------------------------- the collaborators

emit(s, name) == [s EXCEPT !.log = Append(@, Event(name))]

\* InternalModel.update: advances the focus controller.
InternalModelUpdate(s, dt, now, env) ==
    [s EXCEPT !.focus = env.focus,
              !.log = Append(@, Call("InternalModel.update", <<dt, now>>))]

\* motionManager.update(coreModel, now): applies the playing motion's frame
\* and returns whether it updated the parameters.
motionManagerUpdate(s, now, env) ==
    LET frame == MotionFrame(env.motion)
    IN [s EXCEPT !.params = [p \in ParamIndices |->
                                IF p \in DOMAIN frame THEN frame[p] ELSE s.params[p]],
                 !.motionUpdated = (env.motion # "none"),
                 !.afterMotion = [p \in ParamIndices |->
                                IF p \in DOMAIN frame THEN frame[p] ELSE s.params[p]],
                 !.log = Append(@, Call("motionManager.update", <<now>>))]

eyeBlinkUpdate(s, dt, env) ==
    [s EXCEPT !.params = setParamFloat(@, eyeOpenParamIndex, env.eye),
              !.log = Append(@, Call("eyeBlink.update", <<dt>>))]

physicsUpdate(s, now) ==
    [s EXCEPT !.params = addToParamFloat(@, hairParamIndex, now \div 10),
              !.log = Append(@, Call("physics.update", <<now>>))]

\* pose.update(dt) writes part opacities, which are no parameters.
poseUpdate(s, dt) ==
    [s EXCEPT !.log = Append(@, Call("pose.update", <<dt>>))]

\* ------------------------------------------------------------ Math.sin

\* 1000 * Math.sin(((now / 1000) * 2 * Math.PI) / divisor), rounded, for the
\* time stamps of NowValues and the five divisors of updateNaturalMovements.
SinMilli(now, divisor) ==
    CASE now = 1000 /\ divisor = "6.5345"  -> 820
      [] now = 1000 /\ divisor = "3.5345"  -> 979
      [] now = 1000 /\ divisor = "5.5345"  -> 907
      [] now = 1000 /\ divisor = "15.5345" -> 394
      [] now = 1000 /\ divisor = "3.2345"  -> 932
      [] now = 2500 /\ divisor = "6.5345"  -> 673
      [] now = 2500 /\ divisor = "3.5345"  -> -964
      [] now = 2500 /\ divisor = "5.5345"  -> 299
      [] now = 2500 /\ divisor = "15.5345" -> 847
      [] now = 2500 /\ divisor = "3.2345"  -> -990
      [] OTHER -> 0

\* ------------------------------------------------ updateFocus and the rest

updateFocus(s) ==
    LET x == s.focus[1]
        y == s.focus[2]
        p1 == addToParamFloat(s.params, eyeballXParamIndex, x)
        p2 == addToParamFloat(p1, eyeballYParamIndex, y)
        p3 == addToParamFloat(p2, angleXParamIndex, x * 30)
        p4 == addToParamFloat(p3, angleYParamIndex, y * 30)
        p5 == addToParamFloat(p4, angleZParamIndex, ((x * y) \div 1000) * (-30))
        p6 == addToParamFloat(p5, bodyAngleXParamIndex, x * 10)
    IN [s EXCEPT !.params = p6,
                 !.log = Append(@, Call("updateFocus", <<>>))]

updateNaturalMovements(s, dt, now) ==
    LET p1 == addToParamFloat(s.params, angleXParamIndex,
                              (15 * SinMilli(now, "6.5345")) \div 2)
        p2 == addToParamFloat(p1, angleYParamIndex,
                              (8 * SinMilli(now, "3.5345")) \div 2)
        p3 == addToParamFloat(p2, angleZParamIndex,
                              (10 * SinMilli(now, "5.5345")) \div 2)
        p4 == addToParamFloat(p3, bodyAngleXParamIndex,
                              (4 * SinMilli(now, "15.5345")) \div 2)
        p5 == setParamFloat(p4, breathParamIndex,
                            500 + SinMilli(now, "3.2345") \div 2)
    IN [s EXCEPT !.params = p5,
                 !.log = Append(@, Call("updateNaturalMovements", <<dt, now>>))]

\* ----------------------------------------------------------------- update

\* update with physics.update moved before updateFocus.
updatePhysicsFirst(self, dt, now, env) ==
    LET s1 == InternalModelUpdate(self, dt, now, env)
        s2 == emit(s1, "beforeMotionUpdate")
        s3 == motionManagerUpdate(s2, now, env)
        s4 == emit(s3, "afterMotionUpdate")
        s5 == saveParam(s4)
        s6 == IF ~s3.motionUpdated /\ self.eyeBlink THEN eyeBlinkUpdate(s5, dt, env) ELSE s5
        s7 == IF self.physics THEN physicsUpdate(s6, now) ELSE s6
        s8 == updateFocus(s7)
        s9 == updateNaturalMovements(s8, dt, now)
        s10 == IF self.pose THEN poseUpdate(s9, dt) ELSE s9
        s11 == emit(s10, "beforeModelUpdate")
        s12 == coreModelUpdate(s11)
    IN loadParam(s12)

\* update with 'beforeModelUpdate' emitted before physics and pose.
updateEarlyEvent(self, dt, now, env) ==
    LET s1 == InternalModelUpdate(self, dt, now, env)
        s2 == emit(s1, "beforeMotionUpdate")
        s3 == motionManagerUpdate(s2, now, env)
        s4 == emit(s3, "afterMotionUpdate")
        s5 == saveParam(s4)
        s6 == IF ~s3.motionUpdated /\ self.eyeBlink THEN eyeBlinkUpdate(s5, dt, env) ELSE s5
        s7 == updateFocus(s6)
        s8 == updateNaturalMovements(s7, dt, now)
        s9 == emit(s8, "beforeModelUpdate")
        s10 == IF self.physics THEN physicsUpdate(s9, now) ELSE s9
        s11 == IF self.pose THEN poseUpdate(s10, dt) ELSE s10
        s12 == coreModelUpdate(s11)
    IN loadParam(s12)

\* update with the eye blink not guarded by motionUpdated.
updateAlwaysBlink(self, dt, now, env) ==
    LET s1 == InternalModelUpdate(self, dt, now, env)
        s2 == emit(s1, "beforeMotionUpdate")
        s3 == motionManagerUpdate(s2, now, env)
        s4 == emit(s3, "afterMotionUpdate")
        s5 == saveParam(s4)
        s6 == IF self.eyeBlink THEN eyeBlinkUpdate(s5, dt, env) ELSE s5
        s7 == updateFocus(s6)
        s8 == updateNaturalMovements(s7, dt, now)
        s9 == IF self.physics THEN physicsUpdate(s8, now) ELSE s8
        s10 == IF self.pose THEN poseUpdate(s9, dt) ELSE s9
        s11 == emit(s10, "beforeModelUpdate")
        s12 == coreModelUpdate(s11)
    IN loadParam(s12)

\* update with saveParam called after updateFocus.
updateLateSave(self, dt, now, env) ==
    LET s1 == InternalModelUpdate(self, dt, now, env)
        s2 == emit(s1, "beforeMotionUpdate")
        s3 == motionManagerUpdate(s2, now, env)
        s4 == emit(s3, "afterMotionUpdate")
        s5 == IF ~s3.motionUpdated /\ self.eyeBlink THEN eyeBlinkUpdate(s4, dt, env) ELSE s4
        s6 == updateFocus(s5)
        s7 == saveParam(s6)
        s8 == updateNaturalMovements(s7, dt, now)
        s9 == IF self.physics THEN physicsUpdate(s8, now) ELSE s8
        s10 == IF self.pose THEN poseUpdate(s9, dt) ELSE s9
        s11 == emit(s10, "beforeModelUpdate")
        s12 == coreModelUpdate(s11)
    IN loadParam(s12)

update(self, dt, now, env) ==
    LET s1 == InternalModelUpdate(self, dt, now, env)
        s2 == emit(s1, "beforeMotionUpdate")
        s3 == motionManagerUpdate(s2, now, env)
        s4 == emit(s3, "afterMotionUpdate")
        s5 == saveParam(s4)
        s6 == IF ~s3.motionUpdated /\ self.eyeBlink THEN eyeBlinkUpdate(s5, dt, env) ELSE s5
        s7 == updateFocus(s6)
        s8 == updateNaturalMovements(s7, dt, now)
        s9 == IF self.physics THEN physicsUpdate(s8, now) ELSE s8
        s10 == IF self.pose THEN poseUpdate(s9, dt) ELSE s9
        s11 == emit(s10, "beforeModelUpdate")
        s12 == coreModelUpdate(s11)
    IN loadParam(s12)

InitUpdate ==
    /\ eyeBlink = TRUE
    /\ physics = FALSE
    /\ pose = FALSE
    /\ params = InitParams
    /\ savedParams = InitParams
    /\ focus = <<0, 0>>
    /\ lastUpdate = [called |-> FALSE, dt |-> 0, now |-> 0, motionUpdated |-> FALSE,
                     hadEyeBlink |-> FALSE, hadPhysics |-> FALSE, hadPose |-> FALSE,
                     log |-> <<>>, afterMotion |-> InitParams,
                     atModelUpdate |-> InitParams]
    /\ quietRun = [len |-> 0, base |-> InitParams]

\* A frame: update(dt, now) with what the collaborators do in it.
CallUpdate(dt, now, newFocus, motion) ==
    LET env == [focus |-> newFocus, motion |-> motion,
                eye |-> IF now = 1000 THEN 0 ELSE 500]
        self == [eyeBlink |-> eyeBlink, physics |-> physics, pose |-> pose,
                 params |-> params, saved |-> savedParams, focus |-> focus,
                 log |-> <<>>, motionUpdated |-> FALSE,
                 afterMotion |-> params, atModelUpdate |-> params]
        r == update(self, dt, now, env)
    IN /\ params' = r.params
       /\ savedParams' = r.saved
       /\ focus' = r.focus
       /\ lastUpdate' = [called |-> TRUE, dt |-> dt, now |-> now,
                         motionUpdated |-> r.motionUpdated,
                         hadEyeBlink |-> eyeBlink, hadPhysics |-> physics,
                         hadPose |-> pose, log |-> r.log,
                         afterMotion |-> r.afterMotion,
                         atModelUpdate |-> r.atModelUpdate]
       /\ quietRun' = IF r.afterMotion = params
                      THEN [len |-> IF quietRun.len < MaxQuietRun
                                    THEN quietRun.len + 1 ELSE quietRun.len,
                            base |-> IF quietRun.len = 0 THEN params ELSE quietRun.base]
                      ELSE [len |-> 0, base |-> r.afterMotion]
       /\ UNCHANGED <<eyeBlink, physics, pose>>
       /\ UNCHANGED <<drawVars, glVars>>

\* The optional collaborators are public fields: the factory sets physics and
\* pose after construction, and any of the three may be removed.
SetEyeBlink ==
    /\ eyeBlink' = ~eyeBlink
    /\ UNCHANGED <<physics, pose, params, savedParams, focus, lastUpdate, quietRun>>
    /\ UNCHANGED <<drawVars, glVars>>

SetPhysics ==
    /\ physics' = ~physics
    /\ UNCHANGED <<eyeBlink, pose, params, savedParams, focus, lastUpdate, quietRun>>
    /\ UNCHANGED <<drawVars, glVars>>

SetPose ==
    /\ pose' = ~pose
    /\ UNCHANGED <<eyeBlink, physics, params, savedParams, focus, lastUpdate, quietRun>>
    /\ UNCHANGED <<drawVars, glVars>>

NextUpdate ==
    \/ \E dt \in DtValues, now \in NowValues, f \in FocusValues, m \in MotionInputs :
          CallUpdate(dt, now, f, m)
    \/ SetEyeBlink
    \/ SetPhysics
    \/ SetPose

\* =========================================================================
\* draw
\* =========================================================================

\* Math.fround on an integer: below 2^24 every integer is a float32; above,
\* the float32 values are Ulp apart, and a store rounds to the nearest, a tie
\* to the one with the even significand.
RECURSIVE Ulp(_)
Ulp(ax) == IF ax < 2^24 THEN 1 ELSE 2 * Ulp(ax \div 2)

Fround(x) ==
    LET ax == IF x < 0 THEN -x ELSE x
        u == Ulp(ax)
        q == ax \div u
        r == ax % u
        n == IF 2 * r < u THEN q
             ELSE IF 2 * r > u THEN q + 1
             ELSE IF q % 2 = 0 THEN q ELSE q + 1
    IN IF x < 0 THEN -(n * u) ELSE n * u

IdentityMatrix == [a |-> 1, b |-> 0, c |-> 0, d |-> 1, tx |-> 0, ty |-> 0]

\* The drawing matrices updateTransform may leave: the identity, and one with
\* entries that are float32 values (b, c, d) and entries that are not.
Matrices ==
    { IdentityMatrix,
      [a |-> 16777217, b |-> 5, c |-> -7, d |-> 4, tx |-> 33554435, ty |-> -16777219] }

\* new Float32Array([1,0,0,0, 0,1,0,0, 0,0,1,0, 0,0,0,1]); JavaScript's index
\* k is index k + 1 here.
InitTempMatrixArray ==
    [k \in 1..16 |-> IF k \in {1, 6, 11, 16} THEN Fround(1) ELSE Fround(0)]

\* tempMatrixArray[index] = value
StoreFloat32(arr, index, value) == [arr EXCEPT ![index + 1] = Fround(value)]

\* The accessor init defines on drawParamWebGL.culling: a setter that keeps
\* the local variable instead of storing v, then the setter and the getter.
CullingSetDropped(c, v) == c

CullingSet(c, v) == v

CullingGet(dc, c) == IF dc THEN FALSE ELSE c

\* coreModel.setMatrix(array): the core copies the sixteen entries.
setMatrix(s, arr) ==
    [s EXCEPT !.setMatrixArg = arr,
              !.log = Append(@, Call("coreModel.setMatrix", <<>>))]

\* coreModel.draw(): the core may set culling for a drawable and then reads
\* it to enable or disable face culling.
coreModelDraw(s, coreWrite) ==
    LET c == IF coreWrite = <<>> THEN s.culling ELSE CullingSet(s.culling, coreWrite[1])
    IN [s EXCEPT !.culling = c,
                 !.cullingRead = CullingGet(s.disableCulling, c),
                 !.log = Append(@, Call("coreModel.draw", <<>>))]

\* draw without the six stores' last one (tempMatrixArray[13] = matrix.ty).
drawStaleTy(self, framebuffer, coreWrite) ==
    LET disableCullingSaved == self.disableCulling
        s1 == IF framebuffer THEN [self EXCEPT !.disableCulling = TRUE] ELSE self
        matrix == s1.drawingMatrix
        t1 == StoreFloat32(s1.tempMatrixArray, 0, matrix.a)
        t2 == StoreFloat32(t1, 1, matrix.b)
        t3 == StoreFloat32(t2, 4, matrix.c)
        t4 == StoreFloat32(t3, 5, matrix.d)
        t5 == StoreFloat32(t4, 12, matrix.tx)
        s2 == [s1 EXCEPT !.tempMatrixArray = t5]
        s3 == setMatrix(s2, s2.tempMatrixArray)
        s4 == coreModelDraw(s3, coreWrite)
    IN [s4 EXCEPT !.disableCulling = disableCullingSaved]

\* draw that does not force culling off for a framebuffer.
drawNoForce(self, framebuffer, coreWrite) ==
    LET disableCullingSaved == self.disableCulling
        s1 == self
        matrix == s1.drawingMatrix
        t1 == StoreFloat32(s1.tempMatrixArray, 0, matrix.a)
        t2 == StoreFloat32(t1, 1, matrix.b)
        t3 == StoreFloat32(t2, 4, matrix.c)
        t4 == StoreFloat32(t3, 5, matrix.d)
        t5 == StoreFloat32(t4, 12, matrix.tx)
        t6 == StoreFloat32(t5, 13, matrix.ty)
        s2 == [s1 EXCEPT !.tempMatrixArray = t6]
        s3 == setMatrix(s2, s2.tempMatrixArray)
        s4 == coreModelDraw(s3, coreWrite)
    IN [s4 EXCEPT !.disableCulling = disableCullingSaved]

draw(self, framebuffer, coreWrite) ==
    LET disableCullingSaved == self.disableCulling
        s1 == IF framebuffer THEN [self EXCEPT !.disableCulling = TRUE] ELSE self
        matrix == s1.drawingMatrix
        t1 == StoreFloat32(s1.tempMatrixArray, 0, matrix.a)
        t2 == StoreFloat32(t1, 1, matrix.b)
        t3 == StoreFloat32(t2, 4, matrix.c)
        t4 == StoreFloat32(t3, 5, matrix.d)
        t5 == StoreFloat32(t4, 12, matrix.tx)
        t6 == StoreFloat32(t5, 13, matrix.ty)
        s2 == [s1 EXCEPT !.tempMatrixArray = t6]
        s3 == setMatrix(s2, s2.tempMatrixArray)
        s4 == coreModelDraw(s3, coreWrite)
    IN [s4 EXCEPT !.disableCulling = disableCullingSaved]

\* What the core may write to culling inside a draw: nothing, or a value.
CoreWrites == { <<>>, <<TRUE>>, <<FALSE>> }

InitDraw ==
    /\ disableCulling = [i \in Instances |-> FALSE]
    /\ culling = [i \in Instances |-> FALSE]
    /\ cullingWritten = culling
    /\ drawingMatrix = [i \in Instances |-> IdentityMatrix]
    /\ tempMatrixArray = InitTempMatrixArray
    /\ lastDraw = [called |-> FALSE, stale |-> FALSE,
                   framebuffer |-> FALSE,
                   matrix |-> IdentityMatrix, setMatrixArg |-> InitTempMatrixArray,
                   coreWrote |-> FALSE, cullingRead |-> FALSE, writtenAtRead |-> FALSE,
                   readAfter |-> FALSE,
                   disableCullingBefore |-> FALSE, disableCullingAfter |-> FALSE,
                   log |-> <<>>]

\* draw(gl, framebuffer) on instance i.
CallDraw(i, framebuffer, coreWrite) ==
    LET self == [disableCulling |-> disableCulling[i], culling |-> culling[i],
                 drawingMatrix |-> drawingMatrix[i],
                 tempMatrixArray |-> tempMatrixArray,
                 setMatrixArg |-> <<>>, cullingRead |-> FALSE, log |-> <<>>]
        r == draw(self, framebuffer, coreWrite)
        written == IF coreWrite = <<>> THEN cullingWritten[i] ELSE coreWrite[1]
    IN /\ disableCulling' = [disableCulling EXCEPT ![i] = r.disableCulling]
       /\ culling' = [culling EXCEPT ![i] = r.culling]
       /\ cullingWritten' = [cullingWritten EXCEPT ![i] = written]
       /\ tempMatrixArray' = r.tempMatrixArray
       /\ lastDraw' = [called |-> TRUE,
                       stale |-> (/\ lastDraw.called
                                  /\ lastDraw.matrix # drawingMatrix[i]),
                       framebuffer |-> framebuffer,
                       matrix |-> drawingMatrix[i], setMatrixArg |-> r.setMatrixArg,
                       coreWrote |-> (coreWrite # <<>>), cullingRead |-> r.cullingRead,
                       writtenAtRead |-> written,
                       readAfter |-> CullingGet(r.disableCulling, r.culling),
                       disableCullingBefore |-> disableCulling[i],
                       disableCullingAfter |-> r.disableCulling,
                       log |-> r.log]
       /\ UNCHANGED drawingMatrix
       /\ UNCHANGED <<updateVars, glVars>>

\* updateTransform leaves a new drawing matrix.
UpdateTransform(i, m) ==
    /\ m # drawingMatrix[i]
    /\ drawingMatrix' = [drawingMatrix EXCEPT ![i] = m]
    /\ UNCHANGED <<disableCulling, culling, cullingWritten, tempMatrixArray, lastDraw>>
    /\ UNCHANGED <<updateVars, glVars>>

\* disableCulling is a public field.
SetDisableCulling(i) ==
    /\ disableCulling' = [disableCulling EXCEPT ![i] = ~@]
    /\ UNCHANGED <<culling, cullingWritten, drawingMatrix, tempMatrixArray, lastDraw>>
    /\ UNCHANGED <<updateVars, glVars>>

\* drawParamWebGL.culling = v, outside a draw.
WriteCulling(i, v) ==
    /\ culling' = [culling EXCEPT ![i] = CullingSet(@, v)]
    /\ cullingWritten' = [cullingWritten EXCEPT ![i] = v]
    /\ UNCHANGED <<disableCulling, drawingMatrix, tempMatrixArray, lastDraw>>
    /\ UNCHANGED <<updateVars, glVars>>

NextDraw ==
    \/ \E i \in Instances, fb \in BOOLEAN, w \in CoreWrites : CallDraw(i, fb, w)
    \/ \E i \in Instances, m \in Matrices : UpdateTransform(i, m)
    \/ \E i \in Instances : SetDisableCulling(i)
    \/ \E i \in Instances, v \in BOOLEAN : WriteCulling(i, v)

\* =========================================================================
\* updateWebGLContext
\* =========================================================================

\* The WebGL rendering contexts a renderer may hand over (0: none yet).
GLContexts == {11, 12}

\* The properties of drawParamWebGL besides firstDraw, glno and gl: two
\* buffers of its own, a property of its own that is never a buffer, and a
\* buffer it inherits.
PropNames == {"vertexBuffer", "uvBuffer", "textures", "sharedBuffer"}
OwnProps == {"vertexBuffer", "uvBuffer", "textures"}
BufferProps == {"vertexBuffer", "uvBuffer"}

InitProps ==
    [p \in PropNames |->
        CASE p = "textures"     -> [own |-> TRUE, val |-> "Array"]
          [] p = "sharedBuffer" -> [own |-> FALSE, val |-> "WebGLBuffer"]
          [] OTHER              -> [own |-> TRUE, val |-> "null"]]

\* drawParamWebGL.setGL(gl)
setGL(s, gl) ==
    [s EXCEPT !.dp.gl = gl,
              !.log = Append(@, Call("drawParamWebGL.setGL", <<gl>>))]

\* clipManager.getMaskRenderTexture(): creates the mask's render texture on
\* the context drawParamWebGL holds, for the frame number clipManager holds.
getMaskRenderTexture(s) ==
    [s EXCEPT !.clip.maskTexture = [gl |-> s.dp.gl, frameNo |-> s.clip.curFrameNo],
              !.log = Append(@, Call("clipManager.getMaskRenderTexture", <<>>))]

\* The loop that resets the WebGL buffers.
ResetBuffers(props) ==
    [p \in DOMAIN props |->
        IF props[p].own /\ props[p].val = "WebGLBuffer"
        THEN [props[p] EXCEPT !.val = "null"]
        ELSE props[p]]

\* updateWebGLContext that asks for the mask texture before it sets
\* curFrameNo.
updateWebGLContextEarlyMask(self, gl, glContextID) ==
    LET s1 == [self EXCEPT !.dp.firstDraw = TRUE]
        s2 == setGL(s1, gl)
        s3 == [s2 EXCEPT !.dp.glno = glContextID]
        s4 == [s3 EXCEPT !.dp.props = ResetBuffers(@)]
        s5 == getMaskRenderTexture(s4)
    IN [s5 EXCEPT !.clip.curFrameNo = glContextID,
                  !.log = Append(@, [kind |-> "assign", name |-> "clipManager.curFrameNo",
                                     args |-> <<glContextID>>])]

updateWebGLContext(self, gl, glContextID) ==
    LET s1 == [self EXCEPT !.dp.firstDraw = TRUE]
        s2 == setGL(s1, gl)
        s3 == [s2 EXCEPT !.dp.glno = glContextID]
        s4 == [s3 EXCEPT !.dp.props = ResetBuffers(@)]
        s5 == [s4 EXCEPT !.clip.curFrameNo = glContextID,
                         !.log = Append(@, [kind |-> "assign",
                                            name |-> "clipManager.curFrameNo",
                                            args |-> <<glContextID>>])]
    IN getMaskRenderTexture(s5)

InitGL ==
    /\ drawParamWebGL = [firstDraw |-> TRUE, glno |-> 0, gl |-> 0, props |-> InitProps]
    /\ clipManager = [curFrameNo |-> 0, maskTexture |-> [gl |-> 0, frameNo |-> 0]]
    /\ lastGL = [called |-> FALSE, gl |-> 0, glContextID |-> 0,
                 before |-> [firstDraw |-> TRUE, glno |-> 0, gl |-> 0, props |-> InitProps],
                 after |-> [firstDraw |-> TRUE, glno |-> 0, gl |-> 0, props |-> InitProps],
                 clipAfter |-> [curFrameNo |-> 0, maskTexture |-> [gl |-> 0, frameNo |-> 0]],
                 log |-> <<>>]

CallUpdateWebGLContext(gl, glContextID) ==
    LET self == [dp |-> drawParamWebGL, clip |-> clipManager, log |-> <<>>]
        r == updateWebGLContext(self, gl, glContextID)
    IN /\ drawParamWebGL' = r.dp
       /\ clipManager' = r.clip
       /\ lastGL' = [called |-> TRUE, gl |-> gl, glContextID |-> glContextID,
                     before |-> drawParamWebGL, after |-> r.dp,
                     clipAfter |-> r.clip, log |-> r.log]
       /\ UNCHANGED <<updateVars, drawVars>>

\* The core, drawing: it creates a buffer it finds missing.
CoreCreateBuffer(p) ==
    /\ drawParamWebGL.gl # 0
    /\ drawParamWebGL.props[p].val = "null"
    /\ drawParamWebGL' = [drawParamWebGL EXCEPT !.props[p].val = "WebGLBuffer"]
    /\ UNCHANGED <<clipManager, lastGL>>
    /\ UNCHANGED <<updateVars, drawVars>>

\* The core, at the end of its first draw on a context.
CoreFirstDrawDone ==
    /\ drawParamWebGL.gl # 0
    /\ drawParamWebGL.firstDraw
    /\ drawParamWebGL' = [drawParamWebGL EXCEPT !.firstDraw = FALSE]
    /\ UNCHANGED <<clipManager, lastGL>>
    /\ UNCHANGED <<updateVars, drawVars>>

NextGL ==
    \/ \E gl \in GLContexts, id \in ContextIDs : CallUpdateWebGLContext(gl, id)
    \/ \E p \in BufferProps : CoreCreateBuffer(p)
    \/ CoreFirstDrawDone

\* =========================================================================
\* Specifications
\* =========================================================================

vars == <<eyeBlink, physics, pose, params, savedParams, focus, lastUpdate, quietRun,
          disableCulling, culling, cullingWritten, drawingMatrix, tempMatrixArray,
          lastDraw, drawParamWebGL, clipManager, lastGL>>

\* The state after construction.
Init == InitUpdate /\ InitDraw /\ InitGL

Next == NextUpdate \/ NextDraw \/ NextGL

Spec == Init /\ [][Next]_vars
SpecUpdate == Init /\ [][NextUpdate]_vars
SpecDraw == Init /\ [][NextDraw]_vars
SpecGL == Init /\ [][NextGL]_vars

\* =========================================================================
\* Properties
\* =========================================================================

IsCall(e) == e.kind = "call"
IsEmit(e) == e.kind = "emit"
CallsOf(log) == SelectSeq(log, IsCall)
EventsOf(log) == SelectSeq(log, IsEmit)
Positions(log, name) == { k \in 1..Len(log) : log[k].name = name }
Once(log, name) == Cardinality(Positions(log, name)) = 1
Pos(log, name) == CHOOSE k \in Positions(log, name) : TRUE
Has(log, name) == Positions(log, name) # {}

\* The order of collaborator calls C1 states for a call u of update, with
\* or without the eye blink's step.
ExpectedCalls(u, blink) ==
    <<Call("InternalModel.update", <<u.dt, u.now>>),
      Call("motionManager.update", <<u.now>>),
      Call("coreModel.saveParam", <<>>)>>
    \o (IF blink THEN <<Call("eyeBlink.update", <<u.dt>>)>> ELSE <<>>)
    \o <<Call("updateFocus", <<>>),
         Call("updateNaturalMovements", <<u.dt, u.now>>)>>
    \o (IF u.hadPhysics THEN <<Call("physics.update", <<u.now>>)>> ELSE <<>>)
    \o (IF u.hadPose THEN <<Call("pose.update", <<u.dt>>)>> ELSE <<>>)
    \o <<Call("coreModel.update", <<>>), Call("coreModel.loadParam", <<>>)>>

\* C1: every call of update makes its collaborator calls once each, in the
\* fixed order base update, motionManager.update(now), saveParam, eyeBlink
\* (when it runs), updateFocus, updateNaturalMovements(dt, now), physics.update
\* (now) if physics exists, pose.update(dt) if pose exists, coreModel.update,
\* loadParam; an absent physics or pose removes only its own step.
C1_UpdateCallOrder ==
    lastUpdate.called =>
        \/ CallsOf(lastUpdate.log) = ExpectedCalls(lastUpdate, TRUE)
        \/ CallsOf(lastUpdate.log) = ExpectedCalls(lastUpdate, FALSE)

\* An update with physics but no pose, in which the eye blink ran.
C1_Witness ==
    /\ lastUpdate.called
    /\ lastUpdate.hadPhysics /\ ~lastUpdate.hadPose
    /\ Has(lastUpdate.log, "physics.update")
    /\ Has(lastUpdate.log, "eyeBlink.update")
    /\ Len(CallsOf(lastUpdate.log)) = 9

ParamWriters ==
    {"eyeBlink.update", "updateFocus", "updateNaturalMovements",
     "physics.update", "pose.update"}

\* C2: every call of update emits exactly three events: 'beforeMotionUpdate'
\* directly before motionManager.update, 'afterMotionUpdate' after it and
\* before saveParam, 'beforeModelUpdate' after eye blink, focus, natural
\* movements, physics and pose and before coreModel.update; none after
\* coreModel.update.
C2_EventOrder ==
    lastUpdate.called =>
        LET log == lastUpdate.log
        IN /\ EventsOf(log) = <<Event("beforeMotionUpdate"),
                                Event("afterMotionUpdate"),
                                Event("beforeModelUpdate")>>
           /\ Once(log, "motionManager.update")
           /\ Once(log, "coreModel.saveParam")
           /\ Once(log, "coreModel.update")
           /\ Pos(log, "beforeMotionUpdate") + 1 = Pos(log, "motionManager.update")
           /\ Pos(log, "motionManager.update") < Pos(log, "afterMotionUpdate")
           /\ Pos(log, "afterMotionUpdate") < Pos(log, "coreModel.saveParam")
           /\ Has(log, "updateFocus")
           /\ Has(log, "updateNaturalMovements")
           /\ lastUpdate.hadPhysics => Has(log, "physics.update")
           /\ lastUpdate.hadPose => Has(log, "pose.update")
           /\ \A k \in 1..Len(log) :
                 log[k].name \in ParamWriters => k < Pos(log, "beforeModelUpdate")
           /\ Pos(log, "beforeModelUpdate") < Pos(log, "coreModel.update")
           /\ \A k \in 1..Len(log) :
                 k > Pos(log, "coreModel.update") => ~IsEmit(log[k])

\* An update in which eye blink, physics and pose all ran before the last
\* event.
C2_Witness ==
    /\ lastUpdate.called
    /\ Has(lastUpdate.log, "eyeBlink.update")
    /\ Has(lastUpdate.log, "physics.update")
    /\ Has(lastUpdate.log, "pose.update")
    /\ Len(EventsOf(lastUpdate.log)) = 3

\* C5: eyeBlink.update runs in a call of update exactly when an eyeBlink
\* exists and motionManager.update returned false in that call; when it
\* returned true, focus, natural movements, physics and pose still run.
C5_EyeBlinkGuard ==
    lastUpdate.called =>
        LET log == lastUpdate.log
        IN /\ Has(log, "eyeBlink.update")
                <=> (lastUpdate.hadEyeBlink /\ ~lastUpdate.motionUpdated)
           /\ lastUpdate.motionUpdated =>
                /\ Has(log, "updateFocus")
                /\ Has(log, "updateNaturalMovements")
                /\ lastUpdate.hadPhysics => Has(log, "physics.update")
                /\ lastUpdate.hadPose => Has(log, "pose.update")

\* A frame with a playing motion and all three collaborators present: the
\* eye blink is skipped, physics and pose run.
C5_Witness ==
    /\ lastUpdate.called
    /\ lastUpdate.motionUpdated
    /\ lastUpdate.hadEyeBlink /\ lastUpdate.hadPhysics /\ lastUpdate.hadPose
    /\ ~Has(lastUpdate.log, "eyeBlink.update")
    /\ Has(lastUpdate.log, "physics.update")
    /\ Has(lastUpdate.log, "pose.update")

\* C6: when update returns, the parameters are what they were right after
\* that call's motionManager.update; so through a run of consecutive updates
\* whose motion manager changes no parameter they stay what they were before
\* the run's first call, whatever the focus and the time stamps.
C6_NoAccumulation ==
    /\ lastUpdate.called => params = lastUpdate.afterMotion
    /\ quietRun.len > 0 => params = quietRun.base

\* Two or more quiet updates in a row, the last with the focus off centre,
\* with physics and the eye blink writing: coreModel.update saw parameters
\* that differ from the restored ones in the focus, breath, eye and hair
\* parameters.
C6_Witness ==
    /\ quietRun.len >= 2
    /\ focus # <<0, 0>>
    /\ Has(lastUpdate.log, "physics.update")
    /\ Has(lastUpdate.log, "eyeBlink.update")
    /\ \A p \in {angleXParamIndex, eyeballXParamIndex, bodyAngleXParamIndex,
                 breathParamIndex, hairParamIndex, eyeOpenParamIndex} :
          lastUpdate.atModelUpdate[p] # params[p]
    /\ params = quietRun.base

IdentityEntry(k) == IF k \in {1, 6, 11, 16} THEN 1 ELSE 0

C4_CullingReadInDraw ==
    lastDraw.called =>
        /\ lastDraw.framebuffer => lastDraw.cullingRead = FALSE
        /\ ~lastDraw.framebuffer =>
              lastDraw.cullingRead =
                 (IF lastDraw.disableCullingBefore THEN FALSE
                  ELSE lastDraw.writtenAtRead)

\* A framebuffer draw on an instance whose disableCulling was false and whose
\* culling was last written true: the core read false.
C4_Witness ==
    /\ lastDraw.called
    /\ lastDraw.framebuffer
    /\ ~lastDraw.disableCullingBefore
    /\ lastDraw.writtenAtRead = TRUE
    /\ lastDraw.cullingRead = FALSE

\* C7: a draw leaves disableCulling as it was before the call, and a value
\* written to culling while culling is forced off is kept: whenever
\* disableCulling is false, a read of culling returns the value written last.
C7_CullingTransparent ==
    /\ lastDraw.called =>
          /\ lastDraw.disableCullingAfter = lastDraw.disableCullingBefore
          /\ ~lastDraw.disableCullingAfter =>
                lastDraw.readAfter = lastDraw.writtenAtRead
    /\ \A i \in Instances :
          ~disableCulling[i] =>
              CullingGet(disableCulling[i], culling[i]) = cullingWritten[i]

\* A framebuffer draw, disableCulling false before it, in which the core
\* wrote true to culling and read false: after the draw a read returns true.
C7_Witness ==
    /\ lastDraw.called
    /\ lastDraw.framebuffer
    /\ ~lastDraw.disableCullingBefore
    /\ lastDraw.coreWrote
    /\ lastDraw.writtenAtRead = TRUE
    /\ lastDraw.cullingRead = FALSE
    /\ ~lastDraw.disableCullingAfter
    /\ lastDraw.readAfter = TRUE

\* C8: after updateWebGLContext(gl, glContextID), firstDraw is true, glno and
\* curFrameNo are glContextID, gl was handed to setGL, every own property
\* that held a WebGLBuffer is null and every other own property besides
\* firstDraw, glno and gl is as before; setGL and the assignment of
\* curFrameNo come before getMaskRenderTexture, which so works on the new
\* context and context id.
C8_ContextUpdated ==
    lastGL.called =>
        LET log == lastGL.log
        IN /\ lastGL.after.firstDraw = TRUE
           /\ lastGL.after.glno = lastGL.glContextID
           /\ lastGL.clipAfter.curFrameNo = lastGL.glContextID
           /\ Once(log, "drawParamWebGL.setGL")
           /\ log[Pos(log, "drawParamWebGL.setGL")].args = <<lastGL.gl>>
           /\ \A p \in PropNames :
                 lastGL.before.props[p].own =>
                    IF lastGL.before.props[p].val = "WebGLBuffer"
                    THEN lastGL.after.props[p].val = "null"
                    ELSE lastGL.after.props[p] = lastGL.before.props[p]
           /\ Once(log, "clipManager.curFrameNo")
           /\ Once(log, "clipManager.getMaskRenderTexture")
           /\ Pos(log, "drawParamWebGL.setGL")
                 < Pos(log, "clipManager.getMaskRenderTexture")
           /\ Pos(log, "clipManager.curFrameNo")
                 < Pos(log, "clipManager.getMaskRenderTexture")
           /\ lastGL.clipAfter.maskTexture =
                 [gl |-> lastGL.gl, frameNo |-> lastGL.glContextID]

\* A context change after a first draw: another context, another id, a
\* buffer to reset, firstDraw false before.
C8_Witness ==
    /\ lastGL.called
    /\ lastGL.before.firstDraw = FALSE
    /\ lastGL.before.gl \notin {0, lastGL.gl}
    /\ lastGL.before.glno # lastGL.glContextID
    /\ lastGL.before.props["vertexBuffer"].val = "WebGLBuffer"
    /\ lastGL.before.props["uvBuffer"].val = "null"
    /\ lastGL.after.props["vertexBuffer"].val = "null"
====
